---- MODULE Spec2Model ----
(***************************************************************************)
(* Document collection file (package chunkfile): a growable byte buffer    *)
(* that holds document slots [validity | room (uvarint in 10 bytes) |      *)
(* payload of room bytes], with Read / Insert / Update / Delete / ForAll.  *)
(*                                                                         *)
(* The byte layout and every offset computation follow the source.  The    *)
(* size constants are scaled down so that the buffer can be enumerated:    *)
(* DOC_MAX_ROOM, COL_FILE_SIZE and LEN_PADDING keep their role and their   *)
(* relations (COL_FILE_SIZE > DOC_HEADER_SIZE + DOC_MAX_ROOM, LEN_PADDING  *)
(* shorter than the longest padding gap) but not their magnitude.          *)
(***************************************************************************)
EXTENDS Integers, Sequences, FiniteSets, TLC

\* ---------------------------------------------------------------- constants
DOC_HEADER_SIZE == 11
DOC_MAX_ROOM == 4
COL_FILE_SIZE == 26
DOC_VALID == 1
DOC_INVALID == 0
PADDING == 32
LEN_PADDING == 2

\* ------------------------------------------------------------------- bounds
\* Insert is offered only while the slot it appends ends at or before this
\* (three slots).
MaxUsedSize == 35
\* The same where every offset is offered as an id (two slots).
MaxUsedSizeAnyId == 30
\* Longest run of equal bytes offered as a document: one longer than Update
\* accepts.
MaxDataLen == DOC_MAX_ROOM + 1
\* Saturation value of a decoded room: any room above it behaves alike,
\* since rooms are only compared with DOC_MAX_ROOM before they are used.
HugeRoom == 1000

\* The byte documents are made of.
Letter == 65

Min(a, b) == IF a < b THEN a ELSE b

\* Documents offered to Insert and Update: runs of the letter of every
\* length Update accepts and one more, and a document that is the one byte
\* DOC_VALID, which makes a payload byte look like the tag of a live slot.
Data ==
    {[i \in 1..n |-> Letter] : n \in 0..MaxDataLen} \cup {<<DOC_VALID>>}

\* Offsets offered as ids: every offset of the used region and beyond.
Ids == 0..(MaxUsedSize + 1)

VARIABLES
    Buf,        \* File.Buf: the mapped bytes; offset i is Buf[i + 1]
    Size,       \* File.Size
    UsedSize,   \* File.UsedSize
    last,       \* the last call: its issued id argument and what it returned
    issued,     \* ids returned so far by Insert and Update
    live,       \* issued ids not since deleted or relocated
    scan,       \* what the last call did when it was a ForAll
    damaged     \* the id of the slot whose header was overwritten, if any

vars == <<Buf, Size, UsedSize, last, issued, live, scan, damaged>>

File == [Buf |-> Buf, Size |-> Size, UsedSize |-> UsedSize]

\* b[off] and b[off] = v for a Go byte slice b, offsets from 0.
At(b, off) == b[off + 1]

Put(b, off, v) == [b EXCEPT ![off + 1] = v]

\* The offsets a slice of this length can be indexed at.
Offsets(b) == 0..(Len(b) - 1)

\* ------------------------------------------------------ the growable buffer
\* File.CheckSize(more): the buffer has room for more bytes after UsedSize.
CheckSize(f, more) == f.UsedSize + more <= f.Size

\* File.CheckSizeAndEnsure(more): grow by the growth increment, new bytes
\* zero, until Size >= UsedSize + more.
RECURSIVE CheckSizeAndEnsure(_, _)
CheckSizeAndEnsure(f, more) ==
    IF f.UsedSize + more <= f.Size
    THEN f
    ELSE CheckSizeAndEnsure(
            [f EXCEPT !.Size = f.Size + COL_FILE_SIZE,
                      !.Buf = f.Buf \o [i \in 1..COL_FILE_SIZE |-> 0]],
            more)

\* ------------------------------------------------------------------- varint
\* binary.Uvarint over the 10 bytes b[base] .. b[base+9]: little-endian
\* base-128; 0 on overflow and when no byte ends the number.
RECURSIVE UvarintLoop(_, _, _, _, _)
UvarintLoop(b, base, i, x, s) ==
    IF i >= 10
    THEN 0
    ELSE LET c == At(b, base + i)
             shifted(v) == IF v = 0 THEN 0
                           ELSE IF s >= 14 THEN HugeRoom
                           ELSE Min(HugeRoom, v * (2 ^ s))
         IN IF c < 128
            THEN IF i > 9 \/ (i = 9 /\ c > 1)
                 THEN 0
                 ELSE Min(HugeRoom, x + shifted(c))
            ELSE UvarintLoop(b, base, i + 1,
                             Min(HugeRoom, x + shifted(c % 128)), s + 7)

Uvarint(b, base) == UvarintLoop(b, base, 0, 0, 0)

\* binary.PutUvarint(b[at:], x): writes only the bytes of the encoding.
RECURSIVE PutUvarint(_, _, _)
PutUvarint(b, at, x) ==
    IF x >= 128
    THEN PutUvarint(Put(b, at, (x % 128) + 128), at + 1, x \div 128)
    ELSE Put(b, at, x)

\* copy(dst, src) for dst = b[from:from+n]: the first n bytes of src, one
\* byte after the other from the k-th.
RECURSIVE CopyLoop(_, _, _, _, _)
CopyLoop(b, from, src, n, k) ==
    IF k > n
    THEN b
    ELSE CopyLoop(Put(b, from + k - 1, src[k]), from, src, n, k + 1)

\* copy(b[from:from+Len(data)], data)
CopyData(b, from, data) == CopyLoop(b, from, data, Len(data), 1)

\* PADDING[0:n]
PaddingRun(n) == [i \in 1..n |-> PADDING]

\* The padding written once: the first segment only, without the loop.
FillPaddingOneSegment(b, segBegin, paddingEnd) ==
    IF segBegin < paddingEnd
    THEN LET full == segBegin + LEN_PADDING
             segEnd == IF full >= paddingEnd THEN paddingEnd ELSE full
             segSize == IF full >= paddingEnd THEN paddingEnd - segBegin
                        ELSE LEN_PADDING
             n == Min(segEnd - segBegin, segSize)
         IN CopyLoop(b, segBegin, PaddingRun(segSize), n, 1)
    ELSE b

\* The padding loop of Insert and Update: segments of LEN_PADDING bytes
\* from paddingBegin, the last one cut at paddingEnd.
RECURSIVE FillPadding(_, _, _)
FillPadding(b, segBegin, paddingEnd) ==
    IF segBegin < paddingEnd
    THEN LET full == segBegin + LEN_PADDING
             segEnd == IF full >= paddingEnd THEN paddingEnd ELSE full
             segSize == IF full >= paddingEnd THEN paddingEnd - segBegin
                        ELSE LEN_PADDING
             n == Min(segEnd - segBegin, segSize)
         IN FillPadding(CopyLoop(b, segBegin, PaddingRun(segSize), n, 1),
                        segBegin + LEN_PADDING, paddingEnd)
    ELSE b

\* ---------------------------------------------------------------------- Read
Absent == [ok |-> FALSE, doc |-> <<>>]

Found(doc) == [ok |-> TRUE, doc |-> doc]

\* ColFile.Read(id): the room bytes of the payload, or absent (nil).
Read(f, id) ==
    IF f.UsedSize < DOC_HEADER_SIZE \/ id >= f.UsedSize - DOC_HEADER_SIZE
    THEN Absent
    ELSE IF At(f.Buf, id) # DOC_VALID
    THEN Absent
    ELSE LET room == Uvarint(f.Buf, id + 1)
             docEnd == id + DOC_HEADER_SIZE + room
         IN IF room > DOC_MAX_ROOM
            THEN Absent
            ELSE IF docEnd >= f.Size
            THEN Absent
            ELSE Found(SubSeq(f.Buf, id + DOC_HEADER_SIZE + 1, docEnd))

\* -------------------------------------------------------------------- Insert
NoError == "ok"
TooLarge == "too large"
NotExist == "does not exist"

\* Insert with the size check of Update: the document, not its room, is
\* compared with DOC_MAX_ROOM.
InsertWithUpdateLimit(f, data) ==
    LET len64 == Len(data)
        room == len64 + len64
    IN IF len64 > DOC_MAX_ROOM
       THEN [f |-> f, id |-> 0, err |-> TooLarge]
       ELSE LET id == f.UsedSize
                g == IF ~CheckSize(f, DOC_HEADER_SIZE + room)
                     THEN CheckSizeAndEnsure(f, DOC_HEADER_SIZE + room)
                     ELSE f
                b1 == Put(g.Buf, id, 1)
                b2 == PutUvarint(b1, id + 1, room)
                paddingBegin == id + DOC_HEADER_SIZE + len64
                b3 == CopyData(b2, id + DOC_HEADER_SIZE, data)
                paddingEnd == id + DOC_HEADER_SIZE + room
                b4 == FillPadding(b3, paddingBegin, paddingEnd)
            IN [f |-> [g EXCEPT !.UsedSize = id + DOC_HEADER_SIZE + room,
                                !.Buf = b4],
                id |-> id, err |-> NoError]

\* Insert that takes the first slot again when it is deleted and has the
\* room: the document goes there and the id of that slot is returned.
InsertReusingFirstSlot(f, data) ==
    LET len64 == Len(data)
        room == len64 + len64
    IN IF room > DOC_MAX_ROOM
       THEN [f |-> f, id |-> 0, err |-> TooLarge]
       ELSE IF f.UsedSize >= DOC_HEADER_SIZE /\ At(f.Buf, 0) = DOC_INVALID
               /\ Uvarint(f.Buf, 1) >= len64
       THEN LET b1 == Put(f.Buf, 0, 1)
                b3 == CopyData(b1, DOC_HEADER_SIZE, data)
                b4 == FillPadding(b3, DOC_HEADER_SIZE + len64,
                                  DOC_HEADER_SIZE + Uvarint(f.Buf, 1))
            IN [f |-> [f EXCEPT !.Buf = b4], id |-> 0, err |-> NoError]
       ELSE LET id == f.UsedSize
                g == IF ~CheckSize(f, DOC_HEADER_SIZE + room)
                     THEN CheckSizeAndEnsure(f, DOC_HEADER_SIZE + room)
                     ELSE f
                b1 == Put(g.Buf, id, 1)
                b2 == PutUvarint(b1, id + 1, room)
                paddingBegin == id + DOC_HEADER_SIZE + len64
                b3 == CopyData(b2, id + DOC_HEADER_SIZE, data)
                paddingEnd == id + DOC_HEADER_SIZE + room
                b4 == FillPadding(b3, paddingBegin, paddingEnd)
            IN [f |-> [g EXCEPT !.UsedSize = id + DOC_HEADER_SIZE + room,
                                !.Buf = b4],
                id |-> id, err |-> NoError]

\* ColFile.Insert(data): the file after the call, the id and the error.
Insert(f, data) ==
    LET len64 == Len(data)
        room == len64 + len64
    IN IF room > DOC_MAX_ROOM
       THEN [f |-> f, id |-> 0, err |-> TooLarge]
       ELSE LET id == f.UsedSize
                g == IF ~CheckSize(f, DOC_HEADER_SIZE + room)
                     THEN CheckSizeAndEnsure(f, DOC_HEADER_SIZE + room)
                     ELSE f
                b1 == Put(g.Buf, id, 1)
                b2 == PutUvarint(b1, id + 1, room)
                paddingBegin == id + DOC_HEADER_SIZE + len64
                b3 == CopyData(b2, id + DOC_HEADER_SIZE, data)
                paddingEnd == id + DOC_HEADER_SIZE + room
                b4 == FillPadding(b3, paddingBegin, paddingEnd)
            IN [f |-> [g EXCEPT !.UsedSize = id + DOC_HEADER_SIZE + room,
                                !.Buf = b4],
                id |-> id, err |-> NoError]

\* -------------------------------------------------------------------- Delete
\* Delete with the tag flipped either way: a deleted slot comes back.
DeleteFlipping(f, id) ==
    IF f.UsedSize < DOC_HEADER_SIZE \/ id >= f.UsedSize - DOC_HEADER_SIZE
    THEN f
    ELSE IF At(f.Buf, id) = DOC_VALID
    THEN [f EXCEPT !.Buf = Put(f.Buf, id, DOC_INVALID)]
    ELSE IF At(f.Buf, id) = DOC_INVALID
    THEN [f EXCEPT !.Buf = Put(f.Buf, id, DOC_VALID)]
    ELSE f

\* Delete that also gives the space of a last slot back: UsedSize returns to
\* the start of the slot.
DeleteReclaimingTail(f, id) ==
    IF f.UsedSize < DOC_HEADER_SIZE \/ id >= f.UsedSize - DOC_HEADER_SIZE
    THEN f
    ELSE IF At(f.Buf, id) = DOC_VALID
    THEN IF id + DOC_HEADER_SIZE + Uvarint(f.Buf, id + 1) = f.UsedSize
         THEN [f EXCEPT !.Buf = Put(f.Buf, id, DOC_INVALID), !.UsedSize = id]
         ELSE [f EXCEPT !.Buf = Put(f.Buf, id, DOC_INVALID)]
    ELSE f

\* ColFile.Delete(id): the file after the call.
Delete(f, id) ==
    IF f.UsedSize < DOC_HEADER_SIZE \/ id >= f.UsedSize - DOC_HEADER_SIZE
    THEN f
    ELSE IF At(f.Buf, id) = DOC_VALID
    THEN [f EXCEPT !.Buf = Put(f.Buf, id, DOC_INVALID)]
    ELSE f

\* Update that, when the new document fits, also rewrites the header so that
\* the slot is exactly as long as the document.
UpdateShrinkingRoom(f, id, data) ==
    LET len64 == Len(data)
    IN IF len64 > DOC_MAX_ROOM
       THEN [f |-> f, id |-> 0, err |-> TooLarge]
       ELSE IF f.UsedSize < DOC_HEADER_SIZE
               \/ id >= f.UsedSize - DOC_HEADER_SIZE
       THEN [f |-> f, id |-> 0, err |-> NotExist]
       ELSE IF At(f.Buf, id) # DOC_VALID
       THEN [f |-> f, id |-> 0, err |-> NotExist]
       ELSE LET room == Uvarint(f.Buf, id + 1)
            IN IF room > DOC_MAX_ROOM \/ id + room >= f.UsedSize
               THEN [f |-> f, id |-> 0, err |-> NotExist]
               ELSE IF len64 <= room
               THEN LET b1 == CopyData(f.Buf, id + DOC_HEADER_SIZE, data)
                        b2 == PutUvarint(b1, id + 1, len64)
                    IN [f |-> [f EXCEPT !.Buf = b2], id |-> id, err |-> NoError]
               ELSE Insert(Delete(f, id), data)

\* Update that never relocates: every document Update accepts is written
\* over the slot at id, whatever its room.
UpdateAlwaysInPlace(f, id, data) ==
    LET len64 == Len(data)
    IN IF len64 > DOC_MAX_ROOM
       THEN [f |-> f, id |-> 0, err |-> TooLarge]
       ELSE IF f.UsedSize < DOC_HEADER_SIZE
               \/ id >= f.UsedSize - DOC_HEADER_SIZE
       THEN [f |-> f, id |-> 0, err |-> NotExist]
       ELSE IF At(f.Buf, id) # DOC_VALID
       THEN [f |-> f, id |-> 0, err |-> NotExist]
       ELSE LET room == Uvarint(f.Buf, id + 1)
            IN IF room > DOC_MAX_ROOM \/ id + room >= f.UsedSize
               THEN [f |-> f, id |-> 0, err |-> NotExist]
               ELSE LET paddingBegin == id + DOC_HEADER_SIZE + len64
                        b1 == CopyData(f.Buf, id + DOC_HEADER_SIZE, data)
                        paddingEnd == id + DOC_HEADER_SIZE + room
                        b2 == FillPadding(b1, paddingBegin, paddingEnd)
                    IN [f |-> [f EXCEPT !.Buf = b2], id |-> id, err |-> NoError]

\* -------------------------------------------------------------------- Update
\* ColFile.Update(id, data): the file after the call, the new id, the error.
Update(f, id, data) ==
    LET len64 == Len(data)
    IN IF len64 > DOC_MAX_ROOM
       THEN [f |-> f, id |-> 0, err |-> TooLarge]
       ELSE IF f.UsedSize < DOC_HEADER_SIZE
               \/ id >= f.UsedSize - DOC_HEADER_SIZE
       THEN [f |-> f, id |-> 0, err |-> NotExist]
       ELSE IF At(f.Buf, id) # DOC_VALID
       THEN [f |-> f, id |-> 0, err |-> NotExist]
       ELSE LET room == Uvarint(f.Buf, id + 1)
            IN IF room > DOC_MAX_ROOM \/ id + room >= f.UsedSize
               THEN [f |-> f, id |-> 0, err |-> NotExist]
               ELSE IF len64 <= room
               THEN LET paddingBegin == id + DOC_HEADER_SIZE + len64
                        b1 == CopyData(f.Buf, id + DOC_HEADER_SIZE, data)
                        paddingEnd == id + DOC_HEADER_SIZE + room
                        b2 == FillPadding(b1, paddingBegin, paddingEnd)
                    IN [f |-> [f EXCEPT !.Buf = b2], id |-> id, err |-> NoError]
               ELSE Insert(Delete(f, id), data)

\* -------------------------------------------------------------------- ForAll
\* The inner loop of the corruption branch: for addr++; Buf[addr] is neither
\* tag && addr < UsedSize-DOC_HEADER_SIZE; addr++ {}.  Called with addr
\* already incremented once.
RECURSIVE Resync(_, _)
Resync(f, addr) ==
    IF addr \in Offsets(f.Buf)
       /\ At(f.Buf, addr) # DOC_VALID /\ At(f.Buf, addr) # DOC_INVALID
       /\ addr < f.UsedSize - DOC_HEADER_SIZE
    THEN Resync(f, addr + 1)
    ELSE addr

ScanStart(k) ==
    [k |-> k, calls |-> 0, visited |-> <<>>, logged |-> <<>>,
     trace |-> <<>>, panic |-> FALSE]

\* The loop of ForAll with the visitor's answer ignored.
RECURSIVE ForAllLoopIgnoringAnswer(_, _, _)
ForAllLoopIgnoringAnswer(f, addr, acc) ==
    IF f.UsedSize < DOC_HEADER_SIZE \/ addr >= f.UsedSize - DOC_HEADER_SIZE
    THEN acc
    ELSE IF addr + DOC_HEADER_SIZE > f.Size
    THEN [acc EXCEPT !.panic = TRUE]
    ELSE
    LET validity == At(f.Buf, addr)
        room == Uvarint(f.Buf, addr + 1)
        here == [acc EXCEPT !.trace = Append(@, addr)]
    IN IF (validity # DOC_VALID /\ validity # DOC_INVALID)
          \/ room > DOC_MAX_ROOM
       THEN IF addr + 1 >= f.Size
            THEN [here EXCEPT !.panic = TRUE, !.logged = Append(@, addr)]
            ELSE ForAllLoopIgnoringAnswer(f, Resync(f, addr + 1),
                            [here EXCEPT !.logged = Append(@, addr)])
       ELSE IF validity = DOC_VALID
       THEN IF addr + DOC_HEADER_SIZE + room > f.Size
            THEN [here EXCEPT !.panic = TRUE]
            ELSE ForAllLoopIgnoringAnswer(
                    f, addr + DOC_HEADER_SIZE + room,
                    [here EXCEPT
                        !.calls = @ + 1,
                        !.visited = Append(@,
                            [id |-> addr,
                             doc |-> SubSeq(f.Buf, addr + DOC_HEADER_SIZE + 1,
                                            addr + DOC_HEADER_SIZE + room)])])
       ELSE ForAllLoopIgnoringAnswer(f, addr + DOC_HEADER_SIZE + room, here)

\* The loop of ForAll with one retry: a header found corrupted is logged and
\* decoded a second time before the loop moves past it.
RECURSIVE ForAllLoopRetryingOnce(_, _, _)
ForAllLoopRetryingOnce(f, addr, acc) ==
    IF f.UsedSize < DOC_HEADER_SIZE \/ addr >= f.UsedSize - DOC_HEADER_SIZE
    THEN acc
    ELSE IF addr + DOC_HEADER_SIZE > f.Size
    THEN [acc EXCEPT !.panic = TRUE]
    ELSE
    LET validity == At(f.Buf, addr)
        room == Uvarint(f.Buf, addr + 1)
        here == [acc EXCEPT !.trace = Append(@, addr)]
    IN IF (validity # DOC_VALID /\ validity # DOC_INVALID)
          \/ room > DOC_MAX_ROOM
       THEN IF addr \notin {acc.logged[i] : i \in 1..Len(acc.logged)}
            THEN ForAllLoopRetryingOnce(f, addr,
                            [here EXCEPT !.logged = Append(@, addr)])
            ELSE IF addr + 1 >= f.Size
            THEN [here EXCEPT !.panic = TRUE]
            ELSE ForAllLoopRetryingOnce(f, Resync(f, addr + 1), here)
       ELSE IF validity = DOC_VALID
       THEN IF addr + DOC_HEADER_SIZE + room > f.Size
            THEN [here EXCEPT !.panic = TRUE]
            ELSE LET doc == SubSeq(f.Buf, addr + DOC_HEADER_SIZE + 1,
                                   addr + DOC_HEADER_SIZE + room)
                     called == [here EXCEPT
                                   !.calls = @ + 1,
                                   !.visited = Append(@, [id |-> addr,
                                                          doc |-> doc])]
                 IN IF called.calls = acc.k
                    THEN called
                    ELSE ForAllLoopRetryingOnce(
                             f, addr + DOC_HEADER_SIZE + room, called)
       ELSE ForAllLoopRetryingOnce(f, addr + DOC_HEADER_SIZE + room, here)

\* The loop of ColFile.ForAll from cursor addr.  The visitor answers false on
\* its k-th call (never when k = 0).  acc collects the visitor's calls, the
\* corruption log, the cursor at every loop head and whether an index or a
\* slice bound left the buffer.
RECURSIVE ForAllLoop(_, _, _)
ForAllLoop(f, addr, acc) ==
    IF f.UsedSize < DOC_HEADER_SIZE \/ addr >= f.UsedSize - DOC_HEADER_SIZE
    THEN acc
    ELSE IF addr + DOC_HEADER_SIZE > f.Size
    THEN [acc EXCEPT !.panic = TRUE]
    ELSE
    LET validity == At(f.Buf, addr)
        room == Uvarint(f.Buf, addr + 1)
        here == [acc EXCEPT !.trace = Append(@, addr)]
    IN IF (validity # DOC_VALID /\ validity # DOC_INVALID)
          \/ room > DOC_MAX_ROOM
       THEN IF addr + 1 >= f.Size
            THEN [here EXCEPT !.panic = TRUE, !.logged = Append(@, addr)]
            ELSE ForAllLoop(f, Resync(f, addr + 1),
                            [here EXCEPT !.logged = Append(@, addr)])
       ELSE IF validity = DOC_VALID
       THEN IF addr + DOC_HEADER_SIZE + room > f.Size
            THEN [here EXCEPT !.panic = TRUE]
            ELSE LET doc == SubSeq(f.Buf, addr + DOC_HEADER_SIZE + 1,
                                   addr + DOC_HEADER_SIZE + room)
                     called == [here EXCEPT
                                   !.calls = @ + 1,
                                   !.visited = Append(@, [id |-> addr,
                                                          doc |-> doc])]
                 IN IF called.calls = acc.k
                    THEN called
                    ELSE ForAllLoop(f, addr + DOC_HEADER_SIZE + room, called)
       ELSE ForAllLoop(f, addr + DOC_HEADER_SIZE + room, here)

\* ColFile.ForAll(fun) with a visitor that stops at its k-th call.
ForAll(f, k) == ForAllLoop(f, 0, ScanStart(k))

\* ------------------------------------------------------------ the operations
NoId == 0 - 1

\* OpenCol on a new file: one growth increment of zero bytes, nothing used.
Init ==
    /\ Size = COL_FILE_SIZE
    /\ Buf = [i \in 1..COL_FILE_SIZE |-> 0]
    /\ UsedSize = 0
    /\ last = [op |-> "Open", id |-> NoId, ret |-> NoId, err |-> NoError,
               same |-> TRUE]
    /\ damaged = NoId
    /\ issued = {}
    /\ live = {}
    /\ scan = ScanStart(0)

\* The id argument as the last call is remembered: an issued id, or none.
Arg(id) == IF id \in issued THEN id ELSE NoId

SetFile(f) ==
    /\ Buf' = f.Buf
    /\ Size' = f.Size
    /\ UsedSize' = f.UsedSize

\* A call of Insert(data).
InsertCall(data) ==
    /\ \E r \in {Insert(File, data)} :
          /\ r.f.UsedSize <= MaxUsedSize
          /\ SetFile(r.f)
          /\ last' = [op |-> "Insert", id |-> NoId,
                      ret |-> IF r.err = NoError THEN r.id ELSE NoId,
                      err |-> r.err, same |-> r.f = File]
          /\ issued' = IF r.err = NoError THEN issued \cup {r.id} ELSE issued
          /\ live' = IF r.err = NoError THEN live \cup {r.id} ELSE live
    /\ scan' = ScanStart(0)
    /\ UNCHANGED damaged

\* A call of Update(id, data).
UpdateCall(id, data) ==
    /\ \E r \in {Update(File, id, data)} :
          /\ r.f.UsedSize <= MaxUsedSize
          /\ SetFile(r.f)
          /\ last' = [op |-> "Update", id |-> Arg(id),
                      ret |-> IF r.err = NoError THEN r.id ELSE NoId,
                      err |-> r.err, same |-> r.f = File]
          /\ issued' = IF r.err = NoError THEN issued \cup {r.id} ELSE issued
          /\ live' = IF r.err = NoError
                     THEN IF r.id = id THEN live
                          ELSE (live \ {id}) \cup {r.id}
                     ELSE IF r.f = File THEN live ELSE live \ {id}
    /\ scan' = ScanStart(0)
    /\ UNCHANGED damaged

\* A call of Delete(id).
DeleteCall(id) ==
    /\ \E f \in {Delete(File, id)} :
          /\ SetFile(f)
          /\ last' = [op |-> "Delete", id |-> Arg(id), ret |-> NoId,
                      err |-> NoError, same |-> f = File]
    /\ live' = live \ {id}
    /\ scan' = ScanStart(0)
    /\ UNCHANGED <<issued, damaged>>

\* Visitors offered to ForAll: answer false at call k, k = 0 for never.
MaxStopAt == 3

\* A call of ForAll with a visitor that stops at its k-th call.
ForAllCall(k) ==
    /\ scan' = ForAll(File, k)
    /\ last' = [op |-> "ForAll", id |-> NoId, ret |-> NoId, err |-> NoError,
                same |-> TRUE]
    /\ UNCHANGED <<Buf, Size, UsedSize, issued, live, damaged>>

\* Calls with ids the store handed out, as a caller that keeps them makes.
UpdateIssued(id, data) == id \in issued /\ UpdateCall(id, data)

DeleteIssued(id) == id \in issued /\ DeleteCall(id)

\* Tags that are neither VALID nor INVALID.
BadTags == {2, 255}

\* Damage to the header of the issued slot at id, which has slots before and
\* after it: the validity byte, or all DOC_HEADER_SIZE bytes, become tag.
CorruptHeader(id, tag, whole) ==
    /\ damaged = NoId
    /\ id \in issued
    /\ \E a \in issued : a < id
    /\ \E c \in issued : c > id
    /\ Buf' = [i \in DOMAIN Buf |->
                  IF i - 1 = id
                     \/ (whole /\ i - 1 > id /\ i - 1 < id + DOC_HEADER_SIZE)
                  THEN tag ELSE Buf[i]]
    /\ damaged' = id
    /\ last' = [op |-> "Corrupt", id |-> id, ret |-> NoId, err |-> NoError,
                same |-> FALSE]
    /\ scan' = ScanStart(0)
    /\ UNCHANGED <<Size, UsedSize, issued, live>>

\* Insert, Update and Delete with every document and every offset of the
\* used region (and its end) as id.
Next ==
    \/ \E data \in Data :
           InsertCall(data) /\ UsedSize' <= MaxUsedSizeAnyId
    \/ \E id \in 0..UsedSize, data \in Data :
           UpdateCall(id, data) /\ UsedSize' <= MaxUsedSizeAnyId
    \/ \E id \in 0..UsedSize : DeleteCall(id)

Spec == Init /\ [][Next]_vars

\* Insert, Update and Delete with issued ids, and scans.
NextScan ==
    \/ \E data \in Data : InsertCall(data)
    \/ \E id \in Ids, data \in Data : UpdateIssued(id, data)
    \/ \E id \in Ids : DeleteIssued(id)
    \/ \E k \in 0..MaxStopAt : ForAllCall(k)

SpecScan == Init /\ [][NextScan]_vars

\* Inserts, then damage to one header, and scans.
NextCorrupt ==
    \/ \E data \in Data : damaged = NoId /\ InsertCall(data)
    \/ \E id \in Ids, tag \in BadTags, whole \in BOOLEAN :
           CorruptHeader(id, tag, whole)
    \/ \E k \in 0..MaxStopAt : ForAllCall(k)

SpecCorrupt == Init /\ [][NextCorrupt]_vars

\* ------------------------------------------------- a file of any contents
\* Bytes a file not written by Insert may hold where a header is read: the
\* VALID tag (a room of 1), a byte that is no tag and is the room
\* DOC_MAX_ROOM, and a byte that is no tag and continues a varint.
AnyBytes == {DOC_INVALID, DOC_VALID, DOC_MAX_ROOM, 200}

\* The offsets that hold such bytes: the tag and the first two room bytes of
\* the headers at 0 and at DOC_HEADER_SIZE; every other byte is 0.
AnyOffsets == {h + i : h \in {0, DOC_HEADER_SIZE}, i \in 0..2}

\* OpenCol on a file that exists: one growth increment of bytes, and any
\* UsedSize up to Size.
InitAnyFile ==
    /\ Size = COL_FILE_SIZE
    /\ Buf = [i \in 1..COL_FILE_SIZE |-> 0]
    /\ UsedSize \in 0..COL_FILE_SIZE
    /\ last = [op |-> "Open", id |-> NoId, ret |-> NoId, err |-> NoError,
               same |-> TRUE]
    /\ damaged = NoId
    /\ issued = {}
    /\ live = {}
    /\ scan = ScanStart(0)

\* The file holds byte at off: its contents are anything, byte by byte.
Scribble(off, byte) ==
    /\ At(Buf, off) # byte
    /\ Buf' = Put(Buf, off, byte)
    /\ last' = [op |-> "Scribble", id |-> NoId, ret |-> NoId, err |-> NoError,
                same |-> FALSE]
    /\ scan' = ScanStart(0)
    /\ UNCHANGED <<Size, UsedSize, issued, live, damaged>>

\* Any contents, and scans with a visitor that always answers true.
NextAnyFile ==
    \/ \E off \in AnyOffsets, byte \in AnyBytes : Scribble(off, byte)
    \/ ForAllCall(0)

SpecAnyFile == InitAnyFile /\ [][NextAnyFile]_vars

\* ================================================================ the claims
\* The room the header at id declares.
RoomAt(f, id) == Uvarint(f.Buf, id + 1)

\* The ids a scan passed to its visitor, in call order.
VisitedIds(sc) == [i \in 1..Len(sc.visited) |-> sc.visited[i].id]

Ascending(q) == \A i \in 1..(Len(q) - 1) : q[i] < q[i + 1]

Range(q) == {q[i] : i \in 1..Len(q)}

\* C1 (as claimed): in every state, for every data with
\* 2 * len(data) <= DOC_MAX_ROOM, Read of the id Insert(data) returns is
\* exactly data.
C1_RoundTrip ==
    \A data \in Data :
        2 * Len(data) <= DOC_MAX_ROOM =>
            LET r == Insert(File, data)
            IN Read(r.f, r.id) = Found(data)

\* What C2 takes to decide Read: id before UsedSize - DOC_HEADER_SIZE, the
\* VALID tag, a room within DOC_MAX_ROOM, a payload that ends at or before
\* Size.
C2_Readable(f, id) ==
    /\ id < f.UsedSize - DOC_HEADER_SIZE
    /\ At(f.Buf, id) = DOC_VALID
    /\ RoomAt(f, id) <= DOC_MAX_ROOM
    /\ id + DOC_HEADER_SIZE + RoomAt(f, id) <= f.Size

\* C2 (as claimed): in every state and for every id, Read returns bytes if
\* and only if C2_Readable holds, a payload ending exactly at Size included.
C2_ReadContract ==
    \A id \in Ids : Read(File, id).ok <=> C2_Readable(File, id)

\* C3 (as claimed): in every state, for every id and every data with
\* len(data) <= DOC_MAX_ROOM, Update fails with "does not exist" if and only
\* if Read of that id is absent.
C3_UpdateExistsAsRead ==
    \A id \in Ids, data \in Data :
        Len(data) <= DOC_MAX_ROOM =>
            ((Update(File, id, data).err = NotExist) <=> ~Read(File, id).ok)

\* C4 (as claimed): for a live slot and every newData no longer than its
\* room, Update succeeds, returns the same id, and Read then returns exactly
\* newData.
C4_InPlaceUpdate ==
    \A id \in live, data \in Data :
        Len(data) <= RoomAt(File, id) =>
            LET r == Update(File, id, data)
            IN /\ r.err = NoError
               /\ r.id = id
               /\ Read(r.f, id) = Found(data)

\* C5 (as claimed): for a live slot and every newData longer than its room
\* and no longer than DOC_MAX_ROOM, Update returns another id, the old id
\* then reads absent and the new id reads newData.
C5_Relocation ==
    \A id \in live, data \in Data :
        (RoomAt(File, id) < Len(data) /\ Len(data) <= DOC_MAX_ROOM) =>
            LET r == Update(File, id, data)
            IN /\ r.err = NoError
               /\ r.id # id
               /\ ~Read(r.f, id).ok
               /\ Read(r.f, r.id) = Found(data)

\* The offsets of Buf that Delete(id) indexes.
DeleteIndexes(f, id) ==
    IF f.UsedSize < DOC_HEADER_SIZE \/ id >= f.UsedSize - DOC_HEADER_SIZE
    THEN {}
    ELSE {id}

\* C6: in every state and for every id, Delete indexes Buf only inside
\* [0, Size), Read of the id is absent after one Delete and after a second
\* one, and the second Delete changes nothing.
C6_IdempotentDelete ==
    \A id \in Ids :
        LET d1 == Delete(File, id)
            d2 == Delete(d1, id)
        IN /\ DeleteIndexes(File, id) \subseteq Offsets(Buf)
           /\ DeleteIndexes(d1, id) \subseteq Offsets(d1.Buf)
           /\ ~Read(d1, id).ok
           /\ ~Read(d2, id).ok
           /\ d2 = d1

\* C6 witness: a Delete of an issued id that found the slot already deleted
\* (the call changed nothing and the tag is INVALID), and the id reads absent.
C6_Witness ==
    /\ last.op = "Delete"
    /\ last.id # NoId
    /\ last.same
    /\ At(Buf, last.id) = DOC_INVALID
    /\ ~Read(File, last.id).ok

\* C7 (as claimed): in every state and for every id, Delete changes the store
\* only when id is the start of a currently valid slot, and then only that
\* slot's validity byte.
C7_DeleteOnlySlotStarts ==
    \A id \in Ids :
        LET d == Delete(File, id)
        IN d # File =>
              /\ id \in issued
              /\ At(Buf, id) = DOC_VALID
              /\ d = [File EXCEPT !.Buf = Put(Buf, id, DOC_INVALID)]

\* C8 (as claimed): after the header of one mid-file slot is damaged, a scan
\* with a visitor that never stops visits exactly the other documents, in
\* ascending order, and logs the damaged offset.
C8_Resynchronization ==
    (last.op = "ForAll" /\ scan.k = 0 /\ damaged # NoId) =>
        /\ Range(VisitedIds(scan)) = issued \ {damaged}
        /\ Ascending(VisitedIds(scan))
        /\ damaged \in Range(scan.logged)

\* C9 (as claimed): after calls with issued ids only, a scan with a visitor
\* that never stops visits exactly the live documents, each once, in
\* ascending id order.
C9_FullScan ==
    (last.op = "ForAll" /\ scan.k = 0) =>
        /\ Range(VisitedIds(scan)) = live
        /\ Ascending(VisitedIds(scan))

\* C10: a scan whose visitor answers false at its k-th call makes at most k
\* calls; when the store holds k or more documents to visit it makes exactly
\* k, the same k a full scan visits first, and ends in the iteration of the
\* k-th call.
C10_EarlyExit ==
    (last.op = "ForAll" /\ scan.k > 0) =>
        LET full == ForAll(File, 0)
        IN /\ scan.calls <= scan.k
           /\ full.calls >= scan.k =>
                 /\ scan.calls = scan.k
                 /\ scan.visited = SubSeq(full.visited, 1, scan.k)
                 /\ scan.trace[Len(scan.trace)] = scan.visited[scan.k].id
           /\ full.calls < scan.k => scan = [full EXCEPT !.k = scan.k]

\* C10 witness: a scan stopped at its first call while a full scan would
\* visit two documents or more.
C10_Witness ==
    /\ last.op = "ForAll"
    /\ scan.k = 1
    /\ scan.calls = 1
    /\ ForAll(File, 0).calls >= 2

\* C11: in every state, Insert of every data with len(data) > DOC_MAX_ROOM/2
\* returns the too-large error and leaves UsedSize, Size and every byte as
\* they were.
C11_OversizeRejection ==
    \A data \in Data :
        Len(data) > DOC_MAX_ROOM \div 2 =>
            LET r == Insert(File, data)
            IN /\ r.err = TooLarge
               /\ r.f.UsedSize = UsedSize
               /\ r.f.Size = Size
               /\ r.f.Buf = Buf

\* C11 witness: an Insert on a store that holds documents returned the
\* too-large error and changed nothing.
C11_Witness ==
    /\ last.op = "Insert"
    /\ last.err = TooLarge
    /\ last.same
    /\ UsedSize > 0

\* C12: in every state, no call of Insert, Update or Delete, with any
\* argument and whether it succeeds or fails, leaves UsedSize smaller than it
\* was; Delete and an Update that returns the id it was given leave it as it
\* was.
C12_MonotonicUsedSize ==
    /\ \A data \in Data : Insert(File, data).f.UsedSize >= UsedSize
    /\ \A id \in Ids, data \in Data :
          LET r == Update(File, id, data)
          IN /\ r.f.UsedSize >= UsedSize
             /\ (r.err = NoError /\ r.id = id) => r.f.UsedSize = UsedSize
    /\ \A id \in Ids : Delete(File, id).UsedSize = UsedSize

\* C12 witness: a Delete that flipped the tag of the last slot of a store of
\* two slots; UsedSize still ends that slot.
C12_Witness ==
    /\ last.op = "Delete"
    /\ last.id # NoId
    /\ ~last.same
    /\ \E a \in issued : a < last.id
    /\ \A a \in issued : a <= last.id
    /\ UsedSize = last.id + DOC_HEADER_SIZE + RoomAt(File, last.id)

\* The walk offset -> offset + DOC_HEADER_SIZE + room from addr, for as long
\* as a whole header lies before UsedSize: the offsets it steps on and the
\* offset it ends at.
RECURSIVE Walk(_, _, _)
Walk(f, addr, starts) ==
    IF addr + DOC_HEADER_SIZE > f.UsedSize
    THEN [end |-> addr, starts |-> starts]
    ELSE Walk(f, addr + DOC_HEADER_SIZE + RoomAt(f, addr),
              Append(starts, addr))

\* [0, UsedSize) of f is a sequence of slots without gap or overlap that
\* start exactly at ids, each with a tag and a room within DOC_MAX_ROOM.
Layout(f, ids) ==
    LET w == Walk(f, 0, <<>>)
    IN /\ w.end = f.UsedSize
       /\ Range(w.starts) = ids
       /\ \A id \in ids :
             /\ At(f.Buf, id) \in {DOC_VALID, DOC_INVALID}
             /\ RoomAt(f, id) <= DOC_MAX_ROOM

\* f and g declare the same room at each of ids.
SameRooms(f, g, ids) == \A id \in ids : RoomAt(g, id) = RoomAt(f, id)

\* C13: in every state reached from the empty store by Insert, Update and
\* Delete with issued ids, the walk from 0 steps exactly on the issued ids
\* and ends on UsedSize, every slot has a tag VALID or INVALID and a room
\* within DOC_MAX_ROOM; a successful Insert (direct or by relocation) gives
\* its slot the room 2 * len(data), and no call changes the room of a slot
\* issued before.
C13_LayoutInvariant ==
    /\ Layout(File, issued)
    /\ \A data \in Data :
          LET r == Insert(File, data)
          IN /\ SameRooms(File, r.f, issued)
             /\ r.err = NoError => RoomAt(r.f, r.id) = 2 * Len(data)
    /\ \A id \in issued, data \in Data :
          LET r == Update(File, id, data)
          IN /\ SameRooms(File, r.f, issued)
             /\ (r.err = NoError /\ r.id # id) =>
                    RoomAt(r.f, r.id) = 2 * Len(data)
    /\ \A id \in issued : SameRooms(File, Delete(File, id), issued)

\* C13 witness: a store of three slots, one of them deleted, just after an
\* Update in place that changed bytes.
C13_Witness ==
    /\ Cardinality(issued) = 3
    /\ \E id \in issued : At(Buf, id) = DOC_INVALID
    /\ last.op = "Update"
    /\ last.err = NoError
    /\ last.ret = last.id
    /\ ~last.same
    /\ Layout(File, issued)

\* What C14 says of a successful Insert of data that took f to r.f and
\* returned r.id: the id is the UsedSize before, UsedSize advanced by
\* DOC_HEADER_SIZE + 2 * len(data), and the id is above every issued id.
FreshId(f, r, data) ==
    /\ r.id = f.UsedSize
    /\ r.f.UsedSize = f.UsedSize + DOC_HEADER_SIZE + 2 * Len(data)
    /\ \A a \in issued : a < r.id

\* C14: in every state, also after Deletes, every successful Insert, called
\* directly or by an Update that relocates, returns the UsedSize before the
\* call, advances UsedSize by DOC_HEADER_SIZE + 2 * len(data), and returns an
\* id greater than every id returned before.
C14_IdentityNeverReused ==
    /\ \A data \in Data :
          LET r == Insert(File, data)
          IN r.err = NoError => FreshId(File, r, data)
    /\ \A id \in Ids, data \in Data :
          LET r == Update(File, id, data)
          IN (r.err = NoError /\ r.id # id) => FreshId(File, r, data)

\* C14 witness: an Update relocated a document of a store of two slots: the
\* slot it left is deleted, and the id it returned is the highest so far and
\* starts the last slot.
C14_Witness ==
    /\ last.op = "Update"
    /\ last.err = NoError
    /\ last.id # NoId
    /\ last.ret # last.id
    /\ At(Buf, last.id) = DOC_INVALID
    /\ Cardinality(issued) = 3
    /\ \A a \in issued : a <= last.ret
    /\ UsedSize = last.ret + DOC_HEADER_SIZE + RoomAt(File, last.ret)

\* C15: on a file of any contents and any UsedSize up to Size, a scan with a
\* visitor that always answers true ends; the cursor at the head of the loop
\* is higher at every iteration than at the one before, after an aligned
\* step and after a resynchronization, it stays before UsedSize -
\* DOC_HEADER_SIZE, the resynchronization from any offset ends above that
\* offset, and with UsedSize < DOC_HEADER_SIZE the loop is not entered.
C15_ForAllTerminates ==
    /\ (last.op = "ForAll" /\ scan.k = 0) =>
          /\ Ascending(scan.trace)
          /\ \A i \in 1..Len(scan.trace) :
                scan.trace[i] < UsedSize - DOC_HEADER_SIZE
          /\ UsedSize < DOC_HEADER_SIZE => scan.trace = <<>>
          /\ Range(scan.logged) \subseteq Range(scan.trace)
    /\ \A addr \in 0..(Size - 2) : Resync(File, addr + 1) > addr

\* C15 witness: a scan that found two corrupted headers, resynchronized byte
\* by byte past the first, took an aligned step, and ran to the boundary.
C15_Witness ==
    /\ last.op = "ForAll"
    /\ scan.k = 0
    /\ ~scan.panic
    /\ Len(scan.logged) >= 2
    /\ \E i \in 1..(Len(scan.trace) - 1) :
          scan.trace[i + 1] = scan.trace[i] + 1
    /\ \E i \in 1..(Len(scan.trace) - 1) :
          scan.trace[i + 1] >= scan.trace[i] + DOC_HEADER_SIZE

\* C16 (as claimed): on a file of any contents and any UsedSize up to Size,
\* a scan indexes and slices Buf only inside [0, Size).
C16_CorruptionNeverFatal ==
    last.op = "ForAll" => ~scan.panic

\* The payload bytes of the slot at id from position n to the end of its
\* room are the filler byte.
PaddingFilled(f, id, n) ==
    \A k \in n..(RoomAt(f, id) - 1) :
        At(f.Buf, id + DOC_HEADER_SIZE + k) = PADDING

\* C17: in every state, after every successful Insert(data) and every
\* successful Update(id, data), in place or relocating, the payload bytes of
\* the slot returned from position len(data) to room - 1 are all the filler
\* byte, whatever the slot held before.
C17_PaddingBookkeeping ==
    /\ \A data \in Data :
          LET r == Insert(File, data)
          IN r.err = NoError => PaddingFilled(r.f, r.id, Len(data))
    /\ \A id \in Ids, data \in Data :
          LET r == Update(File, id, data)
          IN r.err = NoError => PaddingFilled(r.f, r.id, Len(data))

\* C17 witness: an Update in place filled a room of 2 * LEN_PADDING bytes
\* with a document, over the padding Insert wrote; the shorter documents
\* Update then takes leave gaps of every length up to 2 * LEN_PADDING over
\* those bytes.
C17_Witness ==
    /\ last.op = "Update"
    /\ last.err = NoError
    /\ last.id # NoId
    /\ last.ret = last.id
    /\ ~last.same
    /\ RoomAt(File, last.id) = 2 * LEN_PADDING
    /\ \A k \in 0..(2 * LEN_PADDING - 1) :
          At(Buf, last.id + DOC_HEADER_SIZE + k) = Letter
    /\ \A n \in 0..(2 * LEN_PADDING) :
          \E data \in Data :
              /\ Len(data) = n
              /\ Update(File, last.id, data).err = NoError
              /\ Update(File, last.id, data).id = last.id

\* C18 (as claimed): in every state, for every id and data, an Update that
\* returns an error leaves Buf, Size and UsedSize as they were, and a
\* document that Read found at id is found there unchanged afterwards.
C18_FailedUpdateChangesNothing ==
    \A id \in Ids, data \in Data :
        LET r == Update(File, id, data)
        IN r.err # NoError =>
              /\ r.f = File
              /\ Read(File, id).ok => Read(r.f, id) = Read(File, id)

\* The offsets of b at which c holds another byte (c is b, or b grown).
Written(b, c) == {o \in Offsets(b) : At(c, o) # At(b, o)}

\* C19: in every state reached by Insert, Update and Delete with issued ids,
\* for every issued id j at which Read finds a document: every Insert, and
\* every Update and Delete of another issued id i, leave Read(j) as it was;
\* an Update of i in place changes bytes only inside the payload of i,
\* [i + DOC_HEADER_SIZE, i + DOC_HEADER_SIZE + room), and an Insert changes
\* bytes only at or beyond the UsedSize before the call.
C19_Isolation ==
    /\ \A j \in issued :
          Read(File, j).ok =>
             /\ \A data \in Data :
                   Read(Insert(File, data).f, j) = Read(File, j)
             /\ \A i \in issued \ {j} :
                   /\ Read(Delete(File, i), j) = Read(File, j)
                   /\ \A data \in Data :
                         Read(Update(File, i, data).f, j) = Read(File, j)
    /\ \A data \in Data :
          \A o \in Written(Buf, Insert(File, data).f.Buf) : o >= UsedSize
    /\ \A i \in issued, data \in Data :
          LET r == Update(File, i, data)
          IN (r.err = NoError /\ r.id = i) =>
                \A o \in Written(Buf, r.f.Buf) :
                    /\ o >= i + DOC_HEADER_SIZE
                    /\ o < i + DOC_HEADER_SIZE + RoomAt(File, i)

\* C19 witness: an Update in place filled the whole room of a slot with a
\* document, up to the byte before the header of the next slot, and Read
\* finds the document of that next slot.
C19_Witness ==
    /\ last.op = "Update"
    /\ last.err = NoError
    /\ last.id # NoId
    /\ last.ret = last.id
    /\ ~last.same
    /\ RoomAt(File, last.id) > 0
    /\ \A k \in 0..(RoomAt(File, last.id) - 1) :
          At(Buf, last.id + DOC_HEADER_SIZE + k) = Letter
    /\ \E j \in issued :
          /\ j = last.id + DOC_HEADER_SIZE + RoomAt(File, last.id)
          /\ Read(File, j).ok

====
